---- MODULE Spec2Model ----
(***************************************************************************)
(* Mutable Resource Engine (swarm/storage/resource.go): the resource       *)
(* handler, its index of resources and the chunk store it publishes to.    *)
(* Kademlia table (swarm/network/kademlia.go): the known peers, the live   *)
(* peers, the depth and the peer suggested for dialling.                   *)
(*                                                                         *)
(* Byte strings are modelled by what the code reads from them: a payload   *)
(* by its length and its multihash prefix length, a chunk body by its      *)
(* fields and total length, a hash by an injective tuple of its preimage.  *)
(***************************************************************************)
EXTENDS Integers, Sequences, FiniteSets, TLC

(* ------------------------------ bounds --------------------------------- *)

\* highest block height the block source reports
MaxBlock == 1
\* number of chunks the store holds
MaxChunks == 3
\* range of the 32-bit period (uint32), scaled down to the model
PeriodRange == 16
\* the width of a peer address in bits (the addresses of the code have 256)
AddrBits == 5
\* the time that passes, in units of RetryInterval
MaxTime == 1
\* the deepest bin of the table that starts with every bin full
SaturatedDepth == 2
\* the goroutines that are in SuggestPeer at one time
MaxCallers == 44
\* the notify goroutines of one peer that have not run yet
MaxPending == 2

(* ------------------------- program constants --------------------------- *)

signatureLength == 65
metadataChunkOffsetSize == 18
chunkSize == 4096
\* range of the 16-bit header fields (uint16)
Uint16Range == 65536
\* NewKadParams
MinProxBinSize == 2
MinBinSize == 2
MaxBinSize == 4
MaxRetries == 42
RetryExponent == 2

(* ------------------------------ names ---------------------------------- *)

\* "f<U+00F8><U+00F8>.bar" stands for the UTF-8 string f-o/-o/.bar (9 bytes),
\* "xn--!.bar" for a name whose ACE label does not decode.
SafeName == "foo.bar"
UnicodeName == "f<U+00F8><U+00F8>.bar"

\* len(name), in bytes
NameLen(name) ==
    CASE name = "" -> 0
      [] name = "foo.bar" -> 7
      [] name = "f<U+00F8><U+00F8>.bar" -> 9
      [] name = "xn--f-5gaa.bar" -> 14
      [] name = "xn--!.bar" -> 9

\* idna.ToASCII(name): (validname, err)
idnaToASCII(name) ==
    CASE name = "f<U+00F8><U+00F8>.bar" -> [err |-> FALSE, val |-> "xn--f-5gaa.bar"]
      [] name = "xn--!.bar" -> [err |-> TRUE, val |-> ""]
      [] OTHER -> [err |-> FALSE, val |-> name]

isSafeNameAlways(name) == TRUE

isSafeName(name) ==
    IF name = "" THEN FALSE
    ELSE LET r == idnaToASCII(name) IN
         IF r.err THEN FALSE ELSE r.val = name

\* ens.EnsNode(name): the 32-byte name hash
EnsNode(name) == <<"ensnode", name>>

(* ----------------------------- payloads -------------------------------- *)

\* "mhash" is a multihash (0x12 0x20 and 32 bytes), "mhash+" the same
\* followed by one more byte, "big" is one byte more of 0xFF than an unsigned
\* update chunk of SafeName has room for.
DataLen(data) ==
    CASE data = "" -> 0
      [] data = "hello" -> 5
      [] data = "mhash" -> 34
      [] data = "mhash+" -> 35
      [] data = "big" -> chunkSize - (NameLen(SafeName) + 12) + 1

\* isMultihash(data): length of the multihash data starts with, 0 if none
isMultihash(data) == IF data \in {"mhash", "mhash+"} THEN 34 ELSE 0

\* the first n bytes of data
Prefix(data, n) ==
    IF n >= DataLen(data) THEN data
    ELSE IF data = "mhash+" /\ n = 34 THEN "mhash"
    ELSE <<"prefix", data, n>>

(* ------------------------------ state ---------------------------------- *)

VARIABLES
    signer,          \* ResourceHandler.signer # nil
    ownerValidator,  \* ResourceHandler.ownerValidator # nil
    queryMaxPeriods, \* ResourceHandler.queryMaxPeriods
    storeBound,      \* ResourceHandler.chunkStore # nil
    store,           \* the chunk store: chunk key -> chunk data (SData)
    resources,       \* ResourceHandler.resources: name hash -> resource
    block,           \* the block height the headerGetter reports
    used,            \* keys of the updates that succeeded so far
    addrs,           \* Kademlia.addrs: address -> entry of a known peer
    conns,           \* Kademlia.conns: address -> entry of a live peer
    now,             \* the clock time.Now() reads, in units of RetryInterval
    HealthCheck,     \* KadParams.HealthCheck
    events,          \* Kademlia.events: the signals the channel holds
    calls,           \* the calls under way: caller -> where the call stands
    last             \* the last call: its arguments, oracle answers and result

vars == <<signer, ownerValidator, queryMaxPeriods, storeBound, store,
          resources, block, used, addrs, conns, now, HealthCheck, events,
          calls, last>>

\* the fields of the Kademlia table and the clock its entries are stamped by
kademlia == <<addrs, conns, now>>

\* the health check of the table and the calls under way
concurrent == <<HealthCheck, events, calls>>

\* the fields of the resource handler and its environment
handler == <<signer, ownerValidator, queryMaxPeriods, storeBound, store,
             resources, block, used>>

\* no peer address (a nil OverlayAddr)
NoPeer == -1

NoKey == <<"", 0, 0, <<"", "">>>>
NilLookupParams == [nil |-> TRUE, Limit |-> FALSE, Max |-> 0]
LookupParams(limit, max) == [nil |-> FALSE, Limit |-> limit, Max |-> max]

\* no chunk data (a nil byte slice)
NoData ==
    [kind |-> "none", headerlength |-> 0, datalength |-> 0, period |-> 0,
     version |-> 0, startBlock |-> 0, frequency |-> 0, name |-> "", data |-> "",
     multihash |-> FALSE, signature |-> "none", length |-> 0, spare |-> 0]

NoCall ==
    [op |-> "", name |-> "", err |-> "", key |-> NoKey, data |-> "",
     frequency |-> 0, period |-> 0, version |-> 0, maxLookup |-> NilLookupParams,
     probes |-> <<>>, put |-> "none", owner |-> "none", reuse |-> FALSE,
     rebuild |-> FALSE, chunk |-> NoData, signature |-> "none",
     multihash |-> FALSE, valid |-> "none",
     peers |-> {}, a |-> NoPeer, o |-> 0, want |-> FALSE, live |-> FALSE,
     NNSet |-> {}, EmptyBins |-> <<>>, healthy |-> "none",
     start |-> 0, current |-> 0]

(* ------------------------- period arithmetic --------------------------- *)

\* getNextPeriod(start, current, frequency): (period, err); the period is
\* the quotient plus one, converted to uint32; the division by a zero
\* frequency aborts
getNextPeriod(start, current, frequency) ==
    IF current < start
    THEN [err |-> "ErrInvalidValue", period |-> 0]
    ELSE IF frequency = 0
    THEN [err |-> "panic", period |-> 0]
    ELSE [err |-> "", period |-> (((current - start) \div frequency) + 1) % PeriodRange]

\* getNextPeriod on start blocks, block heights and frequencies of a chain
\* long enough for the period to leave the range of uint32
GetNextPeriod ==
    /\ \E start \in 0 .. 2, current \in 0 .. 2 * PeriodRange + 2, frequency \in 0 .. 2 :
         LET next == getNextPeriod(start, current, frequency) IN
         last' = [NoCall EXCEPT !.op = "getNextPeriod", !.start = start,
                                !.current = current, !.frequency = frequency,
                                !.period = next.period, !.err = next.err]
    /\ UNCHANGED <<concurrent, kademlia, handler>>

(* ------------------------------ hashing -------------------------------- *)

\* resourceHash(period, version, namehash): H(period || version || namehash)
resourceHash(period, version, namehash) == <<"sha3", period, version, namehash>>

\* the content address of a metadata chunk: H(0x0000 || startBlock || frequency || name)
metaHash(startBlock, frequency, name) == <<"sha3", startBlock, frequency, <<"meta", name>>>>

(* ------------------------------- codec --------------------------------- *)

\* newMetaChunk(name, startBlock, frequency): key and data of the metadata
\* chunk; `spare` is the capacity of the byte slice beyond its length. Read as an update chunk, its first two 16-bit fields are the
\* 0x0000 tag and the low 16 bits of startBlock.
newMetaChunk(name, startBlock, frequency) ==
    [Key |-> metaHash(startBlock, frequency, name),
     SData |-> [kind |-> "meta",
                headerlength |-> 0,
                datalength |-> startBlock % Uint16Range,
                period |-> 0, version |-> 0,
                startBlock |-> startBlock, frequency |-> frequency,
                name |-> name, data |-> "", multihash |-> FALSE,
                signature |-> "none",
                length |-> metadataChunkOffsetSize + NameLen(name),
                spare |-> 0]]

\* newUpdateChunk(key, signature, period, version, name, data, datalength)
newUpdateChunk(key, signature, period, version, name, data, datalength) ==
    LET signaturelength == IF signature # "none" THEN signatureLength ELSE 0
        headerlength == NameLen(name) + 4 + 4
        actualdatalength == DataLen(data)
    IN [Key |-> key,
        SData |-> [kind |-> "update",
                   headerlength |-> headerlength % Uint16Range,
                   datalength |-> datalength % Uint16Range,
                   period |-> period, version |-> version,
                   startBlock |-> 0, frequency |-> 0,
                   name |-> name, data |-> data, multihash |-> (datalength = 0),
                   signature |-> signature,
                   length |-> 4 + signaturelength + headerlength + actualdatalength,
                   spare |-> 0]]

\* binary.ReadUvarint succeeds twice on what follows the header of
\* chunkdata: on the small block numbers of a metadata chunk and on the
\* payloads whose first bytes are below 0x80
uvarintReadable(chunkdata) ==
    chunkdata.kind = "meta" \/ chunkdata.data \in {"hello", "mhash", "mhash+"}

parseError(err) ==
    [err |-> err, signature |-> "none", period |-> 0, version |-> 0,
     name |-> "", data |-> "", multihash |-> FALSE]

\* parseUpdate(chunkdata): (signature, period, version, name, data, multihash, err)
parseUpdate(chunkdata) ==
    LET headerlength == chunkdata.headerlength
        datalength == chunkdata.datalength
        \* the sum is taken in uint16
        exclsignlength == (headerlength + datalength + 4) % Uint16Range
        namelength == headerlength - 8
        intdatalength == IF datalength = 0 THEN isMultihash(chunkdata.data)
                         ELSE datalength
        multihashboundary == 4 + headerlength + intdatalength
        \* the capacity of the byte slice: a slice expression may reach it
        capacity == chunkdata.length + chunkdata.spare
    IN  IF chunkdata.length < 14 THEN parseError("ErrNothingToReturn")
        \* chunkdata[headerlength+4:], the index taken in uint16
        ELSE IF datalength = 0 /\ (headerlength + 4) % Uint16Range > chunkdata.length
             THEN parseError("panic")
        ELSE IF datalength = 0 /\ ~uvarintReadable(chunkdata)
             THEN parseError("ErrCorruptData")
        ELSE IF exclsignlength > chunkdata.length \/ exclsignlength < 14
             THEN parseError("ErrNothingToReturn")
        \* chunkdata[cursor : cursor+namelength] with cursor 12
        ELSE IF namelength < 0 \/ 12 + namelength > capacity THEN parseError("panic")
        \* chunkdata[cursor:] given to isMultihash
        ELSE IF datalength = 0 /\ 4 + headerlength > chunkdata.length
             THEN parseError("panic")
        ELSE IF /\ datalength = 0
                /\ chunkdata.length # multihashboundary
                /\ chunkdata.length < multihashboundary + signatureLength
             THEN parseError("error")
        \* chunkdata[cursor : cursor+intdatalength]
        ELSE IF 4 + headerlength + intdatalength > capacity THEN parseError("panic")
        ELSE IF /\ signer
                /\ chunkdata.length + chunkdata.spare
                      < 4 + headerlength + intdatalength + signatureLength
             THEN parseError("panic")
        ELSE [err |-> "",
              \* the 65 bytes after the data: the signature, unless data
              \* the header does not count lies before it
              signature |->
                 IF ~signer THEN "none"
                 ELSE IF chunkdata.length = 4 + headerlength + intdatalength + signatureLength
                      THEN chunkdata.signature
                 ELSE "garbled",
              period |-> chunkdata.period, version |-> chunkdata.version,
              name |-> chunkdata.name, data |-> Prefix(chunkdata.data, intdatalength),
              multihash |-> (datalength = 0)]

(* -------------------------- resource index ----------------------------- *)

\* the index entry NewResource and LoadResource build (lastKey and Reader,
\* which the handler writes and never reads, are left out)
newResource(name, startBlock, frequency, updated) ==
    [name |-> name, nameHash |-> EnsNode(name), startBlock |-> startBlock,
     frequency |-> frequency, lastPeriod |-> 0, version |-> 0,
     data |-> "", Multihash |-> FALSE, updated |-> updated]

\* resource.isSynced
isSynced(rsrc) == rsrc.updated

\* setResource(nameHash, rsrc): the index with rsrc installed
setResource(nameHash, rsrc) ==
    [k \in (DOMAIN resources) \cup {nameHash} |->
        IF k = nameHash THEN rsrc ELSE resources[k]]

\* hasUpdate(nameHash, period)
hasUpdate(nameHash, period) == resources[nameHash].lastPeriod = period

\* getAddressFromDataSig succeeds on the signature the signer produced
\* ("valid") and on one another key produced ("forged"), not on 65 bytes that
\* are no signature ("garbled")
recoverable(signature) == signature \in {"valid", "forged"}

\* updateResourceIndex(rsrc, chunk): (rsrc, err), chunk given by its key
updateResourceIndex(rsrc, key) ==
    LET p == parseUpdate(store[key]) IN
    IF p.err = "panic" THEN [err |-> "panic", rsrc |-> rsrc]
    ELSE IF rsrc.name # p.name THEN [err |-> "ErrNothingToReturn", rsrc |-> rsrc]
    ELSE IF p.signature # "none" /\ ~recoverable(p.signature)
         THEN [err |-> "ErrUnauthorized", rsrc |-> rsrc]
    ELSE [err |-> "",
          rsrc |-> [rsrc EXCEPT !.lastPeriod = p.period,
                                !.version = p.version, !.updated = TRUE,
                                !.data = p.data, !.Multihash = p.multihash]]

(* ----------------------------- Validate -------------------------------- *)

\* the metadata test of Validate on data parseUpdate rejected
looksLikeMeta(chunkdata) ==
    chunkdata.length > metadataChunkOffsetSize /\ chunkdata.headerlength = 0

\* Validate(key, data): "true", "false", or "panic" when it aborts; `owner`
\* is the validator's answer for the address recovered from the signature
validateUnchecked(key, chunkdata, owner) == "true"

Validate(key, chunkdata, owner) ==
    LET p == parseUpdate(chunkdata) IN
    IF p.err = "panic" THEN "panic"
    ELSE IF p.err # ""
         THEN IF looksLikeMeta(chunkdata) THEN "true" ELSE "false"
    ELSE IF p.signature = "none"
         THEN IF resourceHash(p.period, p.version, EnsNode(p.name)) = key
              THEN "true" ELSE "false"
    ELSE IF ~recoverable(p.signature) THEN "false"
    ELSE IF (IF ownerValidator THEN owner ELSE "yes") = "yes" THEN "true"
    ELSE "false"

(* ------------------------------ lookup --------------------------------- *)

\* a version loop that stops at the version it starts from
latestVersionFirst(period, version, namehash) == version

\* the inner loop of lookup: the highest version reached from `version`
\* through consecutive versions the store holds
RECURSIVE latestVersion(_, _, _)
latestVersion(period, version, namehash) ==
    IF resourceHash(period, version + 1, namehash) \in DOMAIN store
    THEN latestVersion(period, version + 1, namehash)
    ELSE version

hopLimitInclusive(maxLookup, hops) == maxLookup.Limit /\ hops >= maxLookup.Max

\* the hop limit test at the head of the period loop
hopLimitReached(maxLookup, hops) == maxLookup.Limit /\ hops > maxLookup.Max

\* the period loop of lookup; probes lists the periods whose chunk was asked for
RECURSIVE lookupLoop(_, _, _, _, _, _, _)
lookupLoop(rsrc, period, version, specificversion, hops, maxLookup, probes) ==
    IF period = 0
    THEN [err |-> "ErrNotFound", rsrc |-> rsrc, probes |-> probes]
    ELSE IF hopLimitReached(maxLookup, hops)
    THEN [err |-> "ErrPeriodDepth", rsrc |-> rsrc, probes |-> probes]
    ELSE IF resourceHash(period, version, rsrc.nameHash) \in DOMAIN store
    THEN LET v == IF specificversion THEN version
                  ELSE latestVersion(period, version, rsrc.nameHash)
             r == updateResourceIndex(rsrc, resourceHash(period, v, rsrc.nameHash))
         IN [err |-> r.err, rsrc |-> r.rsrc, probes |-> Append(probes, period)]
    ELSE lookupLoop(rsrc, period - 1, version, specificversion, hops + 1,
                    maxLookup, Append(probes, period))

\* lookup(rsrc, period, version, refresh, maxLookup); refresh is not read
lookup(rsrc, period, version, maxLookup) ==
    IF ~storeBound
    THEN [err |-> "ErrInit", rsrc |-> rsrc, probes |-> <<>>]
    ELSE IF period = 0
    THEN [err |-> "ErrInvalidValue", rsrc |-> rsrc, probes |-> <<>>]
    ELSE lookupLoop(rsrc, period, IF version > 0 THEN version ELSE 1, version > 0, 0,
                    IF maxLookup.nil THEN queryMaxPeriods ELSE maxLookup, <<>>)

(* ------------------------------ oracles -------------------------------- *)

\* The answers of the signer, the ownerValidator and the headerGetter to one
\* call. A handler without signer never signs; one without validator takes
\* every owner. `owner` is what the validator would answer for the name.
SignAnswers == IF signer THEN {"ok", "fail"} ELSE {"ok"}
OwnerAnswers == IF ownerValidator THEN {"yes", "no", "err"} ELSE {"yes"}
HeaderAnswers == {"ok", "err"}

\* update asks the headerGetter, then the signer, then the validator; the
\* answers it does not get to are left at their first value
UpdateOracles ==
    {a \in HeaderAnswers \X SignAnswers \X OwnerAnswers :
        /\ a[1] = "err" => (a[2] = "ok" /\ a[3] = "yes")
        /\ a[2] = "fail" => a[3] = "yes"}

\* NewResource asks the signer, then, if there is one, the validator, then
\* the headerGetter
NewResourceOracles ==
    {a \in HeaderAnswers \X SignAnswers \X OwnerAnswers :
        /\ a[2] = "fail" => (a[1] = "ok" /\ a[3] = "yes")
        /\ a[3] # "yes" => (signer /\ a[1] = "ok")}

\* what the store does with a chunk update puts, and whether it then holds
\* the chunk: it signals "stored", signals an error, or signals nothing in
\* time (a chunk that was not signalled is taken as not stored)
PutAnswers == {<<"stored", TRUE>>, <<"error", FALSE>>, <<"timeout", FALSE>>}

checkAccessGranted(owner) == "yes"

\* checkAccess(name, address), `owner` being the validator's answer
checkAccess(owner) == IF ~ownerValidator THEN "yes" ELSE owner

\* the store after Put(chunk): `written` tells whether it then holds the
\* chunk's data under the chunk's key
storePut(chunk, written) ==
    IF written
    THEN [k \in (DOMAIN store) \cup {chunk.Key} |->
            IF k = chunk.Key THEN chunk.SData ELSE store[k]]
    ELSE store

\* room left in the store for a chunk under `key`
HasRoom(key) == key \in DOMAIN store \/ Cardinality(DOMAIN store) < MaxChunks

(* ------------------------------ update --------------------------------- *)

\* the most payload bytes update accepts for `name`
datalimit(name) ==
    LET signaturelength == IF signer THEN signatureLength ELSE 0
    IN chunkSize - (signaturelength - NameLen(name) - 12)

\* the checks update makes before it asks any oracle: the error, or ""
updatePreconditionUnsynced(name, data) ==
    IF DataLen(data) = 0 THEN "ErrInvalidValue"
    ELSE IF ~storeBound THEN "ErrInit"
    ELSE IF EnsNode(name) \notin DOMAIN resources THEN "ErrNotFound"
    ELSE IF DataLen(data) > datalimit(name) THEN "ErrDataOverflow"
    ELSE ""

updatePrecondition(name, data) ==
    IF DataLen(data) = 0 THEN "ErrInvalidValue"
    ELSE IF ~storeBound THEN "ErrInit"
    ELSE IF EnsNode(name) \notin DOMAIN resources THEN "ErrNotFound"
    ELSE IF ~isSynced(resources[EnsNode(name)]) THEN "ErrNotSynced"
    ELSE IF DataLen(data) > datalimit(name) THEN "ErrDataOverflow"
    ELSE ""

\* the version update publishes under at period nextperiod
nextVersionSame(nameHash, nextperiod) == resources[nameHash].version + 1

nextVersion(nameHash, nextperiod) ==
    (IF hasUpdate(nameHash, nextperiod) THEN resources[nameHash].version ELSE 0) + 1

updateFailed(err, owner) ==
    [err |-> err, key |-> NoKey, chunk |-> newMetaChunk("", 0, 0), publish |-> FALSE,
     period |-> 0, version |-> 0, owner |-> owner]

\* the access check of update: made only with a signer
accessDenied(owner) == signer /\ checkAccess(owner) = "no"

\* update from the block height to the Put, its preconditions holding: the
\* error it returns early with, or the chunk it publishes
updateChunk(name, data, multihash, header, sign, owner) ==
    LET rsrc == resources[EnsNode(name)]
        next == getNextPeriod(rsrc.startBlock, block, rsrc.frequency)
        nextperiod == next.period
        version == nextVersion(EnsNode(name), nextperiod)
        key == resourceHash(nextperiod, version, rsrc.nameHash)
        datalength == IF multihash THEN 0 ELSE DataLen(data)
        \* what the validator, if there is one, answers for this name
        asked == IF ownerValidator THEN owner ELSE "none"
    IN  IF header = "err" THEN updateFailed("ErrIO", "none")
        ELSE IF next.err # "" THEN updateFailed(next.err, "none")
        ELSE IF signer /\ sign # "ok" THEN updateFailed("ErrInvalidSignature", "none")
        ELSE IF signer /\ checkAccess(owner) = "err" THEN updateFailed("ErrIO", asked)
        ELSE IF accessDenied(owner) THEN updateFailed("ErrUnauthorized", asked)
        ELSE [err |-> "", key |-> key,
              chunk |-> newUpdateChunk(key, IF signer THEN "valid" ELSE "none",
                                       nextperiod, version, name, data, datalength),
              publish |-> TRUE, period |-> nextperiod, version |-> version,
              owner |-> asked]

\* the entry after the store answered `put` to the chunk c of update
updatedEarly(rsrc, c, put, data) ==
    [rsrc EXCEPT !.lastPeriod = c.period, !.version = c.version, !.data = data]

updated(rsrc, c, put, data) ==
    IF put = "stored"
    THEN [rsrc EXCEPT !.lastPeriod = c.period, !.version = c.version, !.data = data]
    ELSE rsrc

\* update(ctx, name, data, multihash)
update(op, name, data, multihash) ==
    LET call == [NoCall EXCEPT !.op = op, !.name = name, !.data = data] IN
    /\ IF updatePrecondition(name, data) # ""
       THEN /\ last' = [call EXCEPT !.err = updatePrecondition(name, data)]
            /\ UNCHANGED <<store, resources, used>>
       ELSE \E a \in UpdateOracles :
            LET c == updateChunk(name, data, multihash, a[1], a[2], a[3]) IN
            IF ~c.publish
            THEN /\ last' = [call EXCEPT !.err = c.err, !.owner = c.owner]
                 /\ UNCHANGED <<store, resources, used>>
            ELSE /\ HasRoom(c.key)
                 /\ \E answer \in PutAnswers :
                     /\ store' = storePut(c.chunk, answer[2])
                     /\ resources' = setResource(EnsNode(name),
                            updated(resources[EnsNode(name)], c, answer[1], data))
                     /\ used' = IF answer[1] = "stored" THEN used \cup {c.key} ELSE used
                     /\ last' = [call EXCEPT
                                   !.err = IF answer[1] = "stored" THEN "" ELSE "ErrIO",
                                   !.key = c.key, !.period = c.period,
                                   !.version = c.version, !.put = answer[1],
                                   !.owner = c.owner,
                                   !.reuse = (answer[1] = "stored" /\ c.key \in used)]
    /\ UNCHANGED <<concurrent, addrs, conns, now, signer, ownerValidator, queryMaxPeriods, storeBound, block>>

\* Update(ctx, name, data)
Update ==
    \E in \in {<<SafeName, "">>, <<SafeName, "hello">>, <<UnicodeName, "hello">>} :
        update("Update", in[1], in[2], FALSE)

\* Update(ctx, name, data) with a payload of one byte more than fits
UpdateOverflow == update("Update", SafeName, "big", FALSE)

\* UpdateMultihash(ctx, name, data)
UpdateMultihash ==
    \E data \in {"hello", "mhash"} :
        IF isMultihash(data) = 0
        THEN /\ last' = [NoCall EXCEPT !.op = "UpdateMultihash", !.name = SafeName,
                                      !.data = data, !.err = "ErrNothingToReturn"]
             /\ UNCHANGED <<concurrent, addrs, conns, now, signer, ownerValidator, queryMaxPeriods, storeBound,
                            store, resources, block, used>>
        ELSE update("UpdateMultihash", SafeName, data, TRUE)

(* ---------------------------- NewResource ------------------------------ *)

\* the checks NewResource makes on its arguments: the error, or ""
newResourceArguments(name, frequency) ==
    IF frequency = 0 THEN "ErrInvalidValue"
    ELSE IF ~isSafeName(name) THEN "ErrInvalidValue"
    ELSE ""

\* NewResource from the signature to the Put: the error, or ""
newResourceError(header, sign, owner) ==
    IF signer /\ sign # "ok" THEN "ErrInvalidSignature"
    ELSE IF signer /\ checkAccess(owner) = "err" THEN "error"
    ELSE IF signer /\ checkAccess(owner) = "no" THEN "ErrUnauthorized"
    ELSE IF header = "err" THEN "error"
    ELSE IF ~storeBound THEN "panic"
    ELSE ""

\* the entry NewResource installs
newResourceEntry(name, frequency) == newResource(name, block, frequency, TRUE)

\* NewResource(ctx, name, frequency)
NewResource ==
    /\ \E in \in {<<SafeName, 1>>, <<SafeName, 0>>, <<UnicodeName, 1>>, <<"", 1>>} :
        LET name == in[1]
            frequency == in[2]
            call == [NoCall EXCEPT !.op = "NewResource", !.name = name,
                                   !.frequency = frequency]
        IN  IF newResourceArguments(name, frequency) # ""
            THEN /\ last' = [call EXCEPT !.err = newResourceArguments(name, frequency)]
                 /\ UNCHANGED <<store, resources>>
            ELSE \E a \in NewResourceOracles :
                 LET err == newResourceError(a[1], a[2], a[3])
                     chunk == newMetaChunk(name, block, frequency)
                     asked == IF signer /\ ownerValidator /\ a[2] = "ok" THEN a[3] ELSE "none"
                 IN  IF err # ""
                     THEN /\ last' = [call EXCEPT !.err = err, !.owner = asked]
                          /\ UNCHANGED <<store, resources>>
                     ELSE /\ HasRoom(chunk.Key)
                          /\ store' = storePut(chunk, TRUE)
                          /\ resources' = setResource(EnsNode(name),
                                              newResourceEntry(name, frequency))
                          /\ last' = [call EXCEPT !.key = chunk.Key, !.put = "put",
                                                  !.owner = asked]
    /\ UNCHANGED <<concurrent, addrs, conns, now, signer, ownerValidator, queryMaxPeriods, storeBound, block, used>>

(* ---------------------------- LoadResource ----------------------------- *)

\* LoadResource(key): the error it returns, or ""
loadResource(key) ==
    IF ~storeBound THEN "panic"
    ELSE IF key \notin DOMAIN store THEN "ErrNotFound"
    ELSE IF store[key].headerlength # 0 THEN "ErrCorruptData"
    ELSE IF store[key].length <= metadataChunkOffsetSize THEN "ErrNothingToReturn"
    ELSE ""

\* LoadResource(key) starts the index entry afresh, as a handler new to the
\* store would: the call is a rebuild when it loads the metadata chunk of the
\* entry whose update the handler has just published
rebuilds(key) ==
    /\ loadResource(key) = ""
    /\ last.op \in {"Update", "UpdateMultihash"}
    /\ last.err = ""
    /\ last.name = store[key].name
    /\ LET e == resources[EnsNode(last.name)]
       IN key = metaHash(e.startBlock, e.frequency, e.name)

LoadResource ==
    /\ \E key \in (DOMAIN store) \cup {metaHash(0, 1, SafeName)} :
        /\ last' = IF rebuilds(key)
                   THEN [NoCall EXCEPT !.op = "LoadResource", !.key = key,
                                       !.name = last.name, !.period = last.period,
                                       !.version = last.version, !.data = last.data,
                                       !.rebuild = TRUE]
                   ELSE [NoCall EXCEPT !.op = "LoadResource", !.key = key,
                                       !.err = loadResource(key)]
        /\ resources' =
              IF loadResource(key) = ""
              THEN setResource(EnsNode(store[key].name),
                       newResource(store[key].name, store[key].startBlock,
                                   store[key].frequency, FALSE))
              ELSE resources
    /\ UNCHANGED <<concurrent, addrs, conns, now, signer, ownerValidator, queryMaxPeriods, storeBound, store, block, used>>

(* ------------------------------ lookups -------------------------------- *)

LookupNames == {SafeName, UnicodeName}

notLoaded == [err |-> "ErrNothingToReturn", entered |-> FALSE]

\* a public lookup method that went into lookup(rsrc, period, version, maxLookup)
entered(rsrc, period, version, maxLookup) ==
    LET r == lookup(rsrc, period, version, maxLookup) IN
    [err |-> r.err, entered |-> TRUE, rsrc |-> r.rsrc, probes |-> r.probes,
     period |-> period, version |-> IF version > 0 THEN version ELSE 1,
     maxLookup |-> IF maxLookup.nil THEN queryMaxPeriods ELSE maxLookup]

\* the state after a lookup method returned r
looked(op, name, r) ==
    /\ last' = IF r.entered
               THEN [NoCall EXCEPT !.op = op, !.name = name, !.err = r.err,
                                   !.period = r.period, !.version = r.version,
                                   !.maxLookup = r.maxLookup, !.probes = r.probes]
               ELSE [NoCall EXCEPT !.op = op, !.name = name, !.err = r.err]
    /\ resources' = IF r.entered THEN setResource(EnsNode(name), r.rsrc) ELSE resources
    /\ UNCHANGED <<concurrent, addrs, conns, now, signer, ownerValidator, queryMaxPeriods, storeBound, store, block, used>>

\* LookupVersion(ctx, nameHash, period, version, refresh, maxLookup)
LookupVersion ==
    \E name \in LookupNames :
        IF EnsNode(name) \notin DOMAIN resources
        THEN looked("LookupVersion", name, notLoaded)
        ELSE \E period \in 1 .. MaxBlock + 1, version \in 1 .. 2 :
                looked("LookupVersion", name,
                       entered(resources[EnsNode(name)], period, version, NilLookupParams))

\* LookupHistorical(ctx, nameHash, period, refresh, maxLookup)
LookupHistorical ==
    \E name \in LookupNames :
        IF EnsNode(name) \notin DOMAIN resources
        THEN looked("LookupHistorical", name, notLoaded)
        ELSE \E period \in 0 .. MaxBlock + 2,
                maxLookup \in {NilLookupParams, LookupParams(TRUE, 1)} :
                looked("LookupHistorical", name,
                       entered(resources[EnsNode(name)], period, 0, maxLookup))

\* LookupLatest(ctx, nameHash, refresh, maxLookup)
lookupLatest(rsrc, maxLookup, header) ==
    IF header = "err" THEN [err |-> "error", entered |-> FALSE]
    ELSE LET next == getNextPeriod(rsrc.startBlock, block, rsrc.frequency) IN
         IF next.err # "" THEN [err |-> next.err, entered |-> FALSE]
         ELSE entered(rsrc, next.period, 0, maxLookup)

LookupLatest ==
    \E name \in LookupNames :
        IF EnsNode(name) \notin DOMAIN resources
        THEN looked("LookupLatest", name, notLoaded)
        ELSE \E a \in ({"ok"} \X {NilLookupParams, LookupParams(TRUE, 0),
                                  LookupParams(TRUE, 1)})
                      \cup {<<"err", NilLookupParams>>} :
                looked("LookupLatest", name,
                       lookupLatest(resources[EnsNode(name)], a[2], a[1]))

\* the cursor LookupPrevious moves the entry to before it calls lookup
previousCursor(rsrc) ==
    IF rsrc.version > 1 THEN [rsrc EXCEPT !.version = rsrc.version - 1]
    ELSE [rsrc EXCEPT !.version = 0, !.lastPeriod = rsrc.lastPeriod - 1]

\* LookupPrevious(ctx, nameHash, maxLookup)
lookupPrevious(rsrc, maxLookup) ==
    IF ~isSynced(rsrc) THEN [err |-> "ErrNotSynced", entered |-> FALSE]
    ELSE IF rsrc.lastPeriod = 0 THEN [err |-> "ErrNothingToReturn", entered |-> FALSE]
    ELSE IF rsrc.version <= 1 /\ rsrc.lastPeriod = 1
         THEN [err |-> "ErrNothingToReturn", entered |-> FALSE]
    ELSE entered(previousCursor(rsrc), previousCursor(rsrc).lastPeriod,
                 previousCursor(rsrc).version, maxLookup)

LookupPrevious ==
    \E name \in LookupNames :
        IF EnsNode(name) \notin DOMAIN resources
        THEN looked("LookupPrevious", name, notLoaded)
        ELSE \E maxLookup \in {NilLookupParams, LookupParams(TRUE, 0)} :
                looked("LookupPrevious", name,
                       lookupPrevious(resources[EnsNode(name)], maxLookup))

(* --------------------------- environment ------------------------------- *)

\* SetStore(store)
SetStore ==
    /\ ~storeBound
    /\ storeBound' = TRUE
    /\ last' = [NoCall EXCEPT !.op = "SetStore"]
    /\ UNCHANGED <<concurrent, addrs, conns, now, signer, ownerValidator, queryMaxPeriods, store, resources, block, used>>

\* the chain grows by one block
AdvanceBlock ==
    /\ block < MaxBlock
    /\ block' = block + 1
    /\ last' = [NoCall EXCEPT !.op = "AdvanceBlock"]
    /\ UNCHANGED <<concurrent, addrs, conns, now, signer, ownerValidator, queryMaxPeriods, storeBound, store,
                   resources, used>>

\* a metadata chunk another node of the swarm published reaches the store,
\* Validate having accepted it
Deliver ==
    /\ storeBound
    /\ \E name \in {SafeName, UnicodeName}, startBlock \in 0 .. MaxBlock,
          frequency \in 0 .. 1 :
         LET chunk == newMetaChunk(name, startBlock, frequency) IN
         /\ Validate(chunk.Key, chunk.SData, "yes") = "true"
         /\ HasRoom(chunk.Key)
         /\ store' = storePut(chunk, TRUE)
         /\ last' = [NoCall EXCEPT !.op = "Deliver", !.key = chunk.Key,
                                   !.chunk = chunk.SData]
    /\ UNCHANGED <<concurrent, addrs, conns, now, signer, ownerValidator, queryMaxPeriods, storeBound, resources,
                   block, used>>

(* ------------------------------- codec --------------------------------- *)

\* start blocks of the metadata records given to the codec: small ones, the
\* ones around the sizes of a metadata chunk, and the ends of 16 bits
StartBlocks == {0, 1, 9, 10, 21, 22, 65535, 65536}

\* metadata chunks of any start block, frequency and non-empty name
MetaChunks ==
    {newMetaChunk(name, startBlock, frequency) :
        name \in {SafeName, UnicodeName}, startBlock \in StartBlocks,
        frequency \in 0 .. 2}

\* payloads with the multihash argument update is given with them
PayloadInputs ==
    {<<"hello", FALSE>>, <<"mhash", FALSE>>, <<"big", FALSE>>,
     <<"mhash", TRUE>>, <<"mhash+", TRUE>>}

\* the chunk update builds for a payload at (period, version), signed or not
encodeUpdate(period, version, name, payload, signature) ==
    newUpdateChunk(resourceHash(period, version, EnsNode(name)), signature,
                   period, version, name, payload[1],
                   IF payload[2] THEN 0 ELSE DataLen(payload[1]))

\* update chunks of a handler with signer (signed by the owner or by
\* another key) and of one without
UpdateChunks ==
    {encodeUpdate(period, version, SafeName, payload, signature) :
        period \in 1 .. 2, version \in 1 .. 2, payload \in PayloadInputs,
        signature \in {"none", "valid", "forged"}}

\* the chunk with its last n bytes cut off
Truncated(chunk, n) ==
    [chunk EXCEPT !.SData.length = @ - n,
                  !.SData.signature = IF @ = "none" THEN "none" ELSE "garbled"]

\* the chunk in a byte slice with room for n more bytes
WithSpare(chunk, n) == [chunk EXCEPT !.SData.spare = n]

\* what Validate is given: chunks as they were built, cut short, or in a
\* longer buffer
ValidateInputs ==
    MetaChunks \cup UpdateChunks
      \cup {Truncated(c, 1) : c \in UpdateChunks}
      \cup {WithSpare(c, signatureLength) : c \in UpdateChunks}

\* Validate(key, data) on a chunk under its own key or under another
ValidateCall ==
    /\ \E chunk \in ValidateInputs, key \in {"own", "other"}, owner \in OwnerAnswers :
         LET k == IF key = "own" THEN chunk.Key ELSE NoKey IN
         last' = [NoCall EXCEPT !.op = "Validate", !.key = k,
                                !.chunk = chunk.SData, !.owner = owner,
                                !.valid = Validate(k, chunk.SData, owner)]
    /\ UNCHANGED <<concurrent, addrs, conns, now, signer, ownerValidator, queryMaxPeriods, storeBound, store,
                   resources, block, used>>

\* parseUpdate on the chunk this handler's update builds for a payload it
\* accepts
ParseEncoded ==
    /\ \E period \in 1 .. 2, version \in 1 .. 2, payload \in PayloadInputs :
         LET chunk == encodeUpdate(period, version, SafeName, payload,
                                   IF signer THEN "valid" ELSE "none")
             p == parseUpdate(chunk.SData)
         IN  /\ DataLen(payload[1]) <= datalimit(SafeName)
             /\ last' = [NoCall EXCEPT !.op = "parseUpdate", !.key = chunk.Key,
                                       !.chunk = chunk.SData, !.err = p.err,
                                       !.period = p.period, !.version = p.version,
                                       !.name = p.name, !.data = p.data,
                                       !.multihash = p.multihash,
                                       !.signature = p.signature]
    /\ UNCHANGED <<concurrent, addrs, conns, now, signer, ownerValidator, queryMaxPeriods, storeBound, store,
                   resources, block, used>>

\* values of the 16-bit headerlength and datalength fields of chunk data
HeaderLengths == {0, 7, 8, 15, 65535}
DataLengths == {0, 5, 10, 15, 65531}

\* lengths of the chunk data
ChunkLengths == {13, 14, 24, 4096}

\* chunk data of `length` bytes as it arrives from the network: the two
\* length fields, period 1, version 1, a name when the header has room for
\* one, and `data` in the bytes after the header
rawChunk(headerlength, datalength, length, data) ==
    [kind |-> "update", headerlength |-> headerlength, datalength |-> datalength,
     period |-> 1, version |-> 1, startBlock |-> 0, frequency |-> 0,
     name |-> IF headerlength = 8 + NameLen(SafeName) THEN SafeName ELSE "",
     data |-> data, multihash |-> (datalength = 0), signature |-> "none",
     length |-> length, spare |-> 0]

\* parseUpdate on chunk data whose fields the handler did not write
ParseRaw ==
    /\ \E headerlength \in HeaderLengths, datalength \in DataLengths,
          length \in ChunkLengths, data \in {"hello", "mhash"} :
         LET chunkdata == rawChunk(headerlength, datalength, length, data)
             p == parseUpdate(chunkdata)
         IN  last' = [NoCall EXCEPT !.op = "parseUpdate", !.chunk = chunkdata,
                                    !.err = p.err, !.period = p.period,
                                    !.version = p.version, !.name = p.name,
                                    !.multihash = p.multihash]
    /\ UNCHANGED <<concurrent, kademlia, handler>>

(* --------------------------- Kademlia table ---------------------------- *)

\* addresses are AddrBits wide; the table's own address
base == 0

\* the peers that register and connect: never the table's own address,
\* which the transport does not connect to
Peers == {8, 9, 16}

\* bit i of an address, counted from the most significant bit
bit(address, i) == (address \div (2 ^ (AddrBits - 1 - i))) % 2

\* pof: the proximity order of two addresses is the index of the first bit
\* they differ in, and the width of the address when they are equal
pof(one, other) ==
    LET differing == {i \in 0 .. AddrBits - 1 : bit(one, i) # bit(other, i)} IN
    IF differing = {}
    THEN AddrBits
    ELSE CHOOSE i \in differing : \A j \in differing : i <= j

\* no entry (a nil pot.Val)
NoEntry == [conn |-> FALSE, seenAt |-> -1, retries |-> -1]

\* newEntry(p): the peer is a connection (OverlayConn) or a record
\* (OverlayAddr); stamped with the time, no retries
newEntry(isConn) == [conn |-> isConn, seenAt |-> now, retries |-> 0]

\* pot.Size
Size(t) == Cardinality(DOMAIN t)

\* the entry pot.Swap finds under an address and hands to f, or nil
Found(t, k) == IF k \in DOMAIN t THEN t[k] ELSE NoEntry

\* pot.Swap(t, k, pof, f): what f returns for the entry found takes the
\* place of the entry, nil removes it
Swap(t, k, put) ==
    IF put = NoEntry
    THEN [x \in DOMAIN t \ {k} |-> t[x]]
    ELSE [x \in DOMAIN t \cup {k} |-> IF x = k THEN put ELSE t[x]]

\* pot.Union(t0, t1, pof): the entries of both; of two entries under one
\* address one stays, the one of t1 for the addresses in replaced
Union(t0, t1, replaced) ==
    [x \in DOMAIN t0 \cup DOMAIN t1 |->
        IF x \in DOMAIN t0 /\ ~(x \in DOMAIN t1 /\ x \in replaced)
        THEN t0[x]
        ELSE t1[x]]

\* the addresses of a bin: the entries of t at proximity order po of base
Bin(t, po) == {x \in DOMAIN t : pof(base, x) = po}

\* pot.EachNeighbour(base, pof, f) visits the nearest entries first: of a
\* set of entries, the ones it reaches before the others
nearest(candidates) ==
    {x \in candidates : \A y \in candidates : pof(base, y) <= pof(base, x)}

\* Kademlia.depth, lines 416-426 with the PO the walk of conns starts at:
\* the walk counts the entries nearest first and stops at the one that
\* makes MinProxBinSize; depth is the PO of the entry visited last
RECURSIVE depthWalk(_, _)
depthWalk(po, size) ==
    LET reached == size + Cardinality(Bin(conns, po)) IN
    IF reached >= MinProxBinSize \/ po = 0
    THEN po
    ELSE depthWalk(po - 1, reached)

\* depth without the test of conns.Size(): the PO of the last entry visited
depthUnguarded ==
    IF Size(conns) = 0
    THEN 0
    ELSE LET last1 == CHOOSE x \in DOMAIN conns :
                          \A y \in DOMAIN conns : pof(base, x) <= pof(base, y)
         IN IF Size(conns) < MinProxBinSize THEN pof(base, last1) ELSE depthWalk(AddrBits, 0)

\* depth that stops at the first entry visited
depthOfNearest ==
    IF Size(conns) < MinProxBinSize
    THEN 0
    ELSE pof(base, CHOOSE x \in nearest(DOMAIN conns) : TRUE)

\* Kademlia.depth
depth ==
    IF Size(conns) < MinProxBinSize
    THEN 0
    ELSE depthWalk(AddrBits, 0)

\* the retries the time since the entry was seen allows (callable, lines
\* 446-450): one for each division of the intervals lapsed
RECURSIVE allowedRetries(_)
allowedRetries(delta) ==
    IF delta > 0 THEN 1 + allowedRetries(delta \div RetryExponent) ELSE 0

\* callable that does not look at the time lapsed
callableUntimed(e) ==
    /\ ~e.conn
    /\ ~(e.retries > MaxRetries)

\* callable that wants more retries allowed than were made
callableStrict(e) ==
    /\ ~e.conn
    /\ ~(e.retries > MaxRetries)
    /\ ~(allowedRetries(now - e.seenAt) <= e.retries)

\* Kademlia.callable(val) returns the address of the entry, and not nil
callable(e) ==
    /\ ~e.conn
    /\ ~(e.retries > MaxRetries)
    /\ ~(allowedRetries(now - e.seenAt) < e.retries)

\* SuggestPeer, lines 251-264: the walk of the bins of conns in ascending
\* PO, up to depth; bpo collects the missing bins and the bins shorter than
\* every bin before
RECURSIVE shortBins(_, _, _, _)
shortBins(po, prev, minsize, bpo) ==
    IF po > AddrBits
    THEN bpo
    ELSE LET size == Cardinality(Bin(conns, po)) IN
         IF size = 0
         THEN shortBins(po + 1, prev, minsize, bpo)
         ELSE LET missing == [i \in 1 .. (po - (prev + 1)) |-> prev + i]
                  minsize1 == IF po > prev + 1 THEN 0 ELSE minsize
                  short == size < minsize1
                  bpo1 == IF short THEN Append(bpo \o missing, po) ELSE bpo \o missing
                  minsize2 == IF short THEN size ELSE minsize1
              IN IF po < depth
                 THEN shortBins(po + 1, po, minsize2, bpo1)
                 ELSE bpo1

\* SuggestPeer that takes the bins below MaxBinSize for short
minsizeMax == MaxBinSize

\* SuggestPeer, line 235: a bin is short below MinBinSize
minsize == MinBinSize

\* what SuggestPeer returns: (a, o, want)
Suggestion(a, o, want) == [a |-> a, o |-> o, want |-> want]

\* SuggestPeer, lines 265-294: the callable peers of the first bin of addrs
\* from the first short bin on, when that bin is below depth
shortBinPeers(nxt) ==
    LET bins == {po \in nxt .. AddrBits : Bin(addrs, po) # {}} IN
    IF bins = {}
    THEN {}
    ELSE LET po == CHOOSE b \in bins : \A c \in bins : b <= c IN
         IF po >= depth
         THEN {}
         ELSE {x \in Bin(addrs, po) : callable(addrs[x])}

\* Kademlia.SuggestPeer: the results it can return; the order of the
\* entries of one bin is the pot's
suggestPeer ==
    LET neighbours == nearest({x \in DOMAIN addrs :
                                  pof(base, x) >= depth /\ callable(addrs[x])})
        bpo == shortBins(0, -1, minsize, <<>>)
    IN IF neighbours # {}
       THEN {Suggestion(x, 0, FALSE) : x \in neighbours}
       ELSE IF bpo = <<>>
       THEN {Suggestion(NoPeer, 0, FALSE)}
       ELSE IF shortBinPeers(bpo[1]) # {}
       THEN {Suggestion(x, 0, FALSE) : x \in shortBinPeers(bpo[1])}
       ELSE {Suggestion(NoPeer, bpo[1], TRUE)}

SuggestPeer ==
    /\ \E s \in suggestPeer :
         /\ addrs' = IF s.a = NoPeer
                     THEN addrs
                     ELSE [addrs EXCEPT ![s.a].retries = @ + 1]
         /\ last' = [NoCall EXCEPT !.op = "SuggestPeer", !.a = s.a, !.o = s.o,
                                   !.want = s.want]
    /\ UNCHANGED <<conns, now>>
    /\ UNCHANGED <<handler, concurrent>>

\* the streams of records Register is given: one record or two, the own
\* address among them or not
Streams == {{x} : x \in Peers \cup {base}} \cup {{8, 9}, {8, base}}

\* Register that merges the records received before the own address
registeredBeforeSelf(peers, replaced) ==
    Union(addrs, [x \in peers \ {base} |-> newEntry(FALSE)], replaced)

\* Register, lines 189-202: addrs after Register(peers); the pot of new
\* entries is dropped when the own address is among the records
registered(peers, replaced) ==
    IF base \in peers
    THEN addrs
    ELSE Union(addrs, [x \in peers |-> newEntry(FALSE)], replaced)

\* Kademlia.Register(peers): the own address is an error; the records are
\* gathered in a pot of new entries, which is merged into addrs
register(peers) ==
    /\ \E replaced \in SUBSET ((peers \ {base}) \cap DOMAIN addrs) :
         /\ addrs' = registered(peers, replaced)
         /\ last' = [NoCall EXCEPT !.op = "Register", !.peers = peers,
                       !.err = IF base \in peers THEN "self" ELSE ""]
    /\ UNCHANGED <<conns, now>>
    /\ UNCHANGED <<handler, concurrent>>

Register == \E peers \in Streams : register(peers)

\* On, lines 301-312: conns after On(p)
onConns(p) ==
    Swap(conns, p, IF Found(conns, p) = NoEntry THEN newEntry(TRUE) ELSE Found(conns, p))

\* On that leaves addrs as it is
onAddrsKept(p) == addrs

\* On, lines 313-318: addrs after On(p)
onAddrs(p) ==
    IF Found(conns, p) = NoEntry
    THEN Swap(addrs, p, newEntry(TRUE))
    ELSE addrs

\* Kademlia.On(p)
On ==
    /\ \E p \in Peers :
         /\ conns' = onConns(p)
         /\ addrs' = onAddrs(p)
         /\ last' = [NoCall EXCEPT !.op = "On", !.peers = {p}]
    /\ UNCHANGED now
    /\ UNCHANGED <<handler, concurrent>>

\* Off that does not look at the entry it replaces
offAddrsUnchecked(p) == Swap(addrs, p, newEntry(FALSE))

\* Off, lines 357-365: addrs after Off(p); the call aborts before the
\* assignment when addrs has no entry of the peer
offAddrs(p) ==
    IF Found(addrs, p) = NoEntry
    THEN addrs
    ELSE Swap(addrs, p, newEntry(FALSE))

\* Off, lines 366-371: conns after Off(p)
offConns(p) ==
    IF Found(addrs, p) = NoEntry
    THEN conns
    ELSE Swap(conns, p, NoEntry)

\* Kademlia.Off(p): a peer addrs does not know aborts the call
off(p) ==
    /\ addrs' = offAddrs(p)
    /\ conns' = offConns(p)
    /\ last' = [NoCall EXCEPT !.op = "Off", !.peers = {p},
                  !.live = p \in DOMAIN conns,
                  !.err = IF Found(addrs, p) = NoEntry THEN "panic" ELSE ""]
    /\ UNCHANGED now
    /\ UNCHANGED <<handler, concurrent>>

Off == \E p \in Peers : off(p)

\* the peers of a table with MaxBinSize peers in every bin up to
\* SaturatedDepth: the first addresses of each bin
BinPeers(po) == {2 ^ (AddrBits - 1 - po) + i : i \in 0 .. MaxBinSize - 1}

SaturatedPeers == UNION {BinPeers(po) : po \in 0 .. SaturatedDepth}

\* a peer of bin 0 the full table is told of and is not connected to
ExtraPeer == 2 ^ (AddrBits - 1) + MaxBinSize

RegisterSaturated == register({ExtraPeer})

\* Off(p) of a peer of the table in which every peer is live
OffSaturated ==
    /\ DOMAIN conns = SaturatedPeers
    /\ \E p \in SaturatedPeers : off(p)

\* the time passes by one RetryInterval
Tick ==
    /\ now < MaxTime
    /\ now' = now + 1
    /\ last' = [NoCall EXCEPT !.op = "Tick"]
    /\ UNCHANGED <<addrs, conns>>
    /\ UNCHANGED <<handler, concurrent>>

(* ------------------------------- Prune --------------------------------- *)

\* Prune that leaves a full bin at MaxBinSize peers
extraOverMax(size) == IF size > MaxBinSize THEN size - MaxBinSize ELSE 0

\* Prune, lines 555-564: the number of peers of a bin of `size` live peers
\* that Drop is called on
extra(size) == IF size > MaxBinSize THEN size - MinBinSize ELSE 0

\* the sets of peers one tick of Prune can call Drop on: of every bin of
\* conns the first extra entries, in the order of the pot
dropped ==
    LET full == UNION {Bin(conns, po) : po \in {q \in 0 .. AddrBits :
                                               extra(Cardinality(Bin(conns, q))) > 0}}
    IN {D \in SUBSET full :
           \A po \in 0 .. AddrBits :
               Cardinality(D \cap Bin(conns, po)) = extra(Cardinality(Bin(conns, po)))}

\* one tick of the loop of Prune: conns is read under the read lock and
\* walked, Drop is called on the peers and nothing is written
Prune ==
    /\ \E D \in dropped :
         last' = [NoCall EXCEPT !.op = "Prune", !.peers = D]
    /\ UNCHANGED <<kademlia, handler, concurrent>>

\* On(p) of a peer of bin 0: one of the full table or the extra one
OnBinZero ==
    /\ \E p \in BinPeers(0) \cup {ExtraPeer} :
         /\ conns' = onConns(p)
         /\ addrs' = onAddrs(p)
         /\ last' = [NoCall EXCEPT !.op = "On", !.peers = {p}]
    /\ UNCHANGED <<now, handler, concurrent>>

\* Off(p) of a peer of bin 0
OffBinZero == \E p \in BinPeers(0) \cup {ExtraPeer} : off(p)

(* ------------------------------- notify -------------------------------- *)

\* On(p), lines 298-323, without HealthCheck: the peer is inserted under the
\* write lock and `go k.notify(p)` starts a goroutine that has yet to take
\* the read lock; calls counts the goroutines started for a peer and not
\* yet run
OnNotify ==
    /\ \E p \in Peers :
         /\ (IF p \in DOMAIN calls THEN calls[p] ELSE 0) < MaxPending
         /\ conns' = onConns(p)
         /\ addrs' = onAddrs(p)
         /\ calls' = [x \in DOMAIN calls \cup {p} |->
                         IF x = p THEN (IF p \in DOMAIN calls THEN calls[p] ELSE 0) + 1
                         ELSE calls[x]]
         /\ last' = [NoCall EXCEPT !.op = "On", !.peers = {p}]
    /\ UNCHANGED <<now, handler, HealthCheck, events>>

\* notify(p), lines 325-351: under the read lock the depth is computed and
\* the peer and the live peers are notified; `live` tells whether p is in
\* conns at that time
notify ==
    /\ \E p \in DOMAIN calls :
         /\ calls' = [x \in (IF calls[p] = 1 THEN DOMAIN calls \ {p} ELSE DOMAIN calls) |->
                         IF x = p THEN calls[p] - 1 ELSE calls[x]]
         /\ last' = [NoCall EXCEPT !.op = "notify", !.peers = {p}, !.o = depth,
                                   !.live = p \in DOMAIN conns]
    /\ UNCHANGED <<kademlia, handler, HealthCheck, events>>

(* ---------------------------- health check ---------------------------- *)

\* gotNearestNeighbours(peers): eachConn gathers the live peers from the
\* nearest down to depth, the own address (PO above 255) left out; every
\* expected peer is among them
gotNearestNeighbours(peers) ==
    peers \subseteq {x \in DOMAIN conns :
                        pof(base, x) <= AddrBits - 1 /\ pof(base, x) >= depth}

\* full, lines 627-636: the bins i from prev up to po that conns does not
\* hold are compared with emptyBins from its end; e is the number of
\* entries not yet taken
RECURSIVE fullGap(_, _, _, _)
fullGap(i, po, e, emptyBins) ==
    IF e > 0 /\ i < po
    THEN IF emptyBins[e] # i
         THEN [stop |-> TRUE, e |-> e - 1, panic |-> emptyBins[e] < i]
         ELSE fullGap(i + 1, po, e - 1, emptyBins)
    ELSE [stop |-> FALSE, e |-> e, panic |-> FALSE]

\* full, lines 626-639: the walk of the bins of conns in ascending PO
RECURSIVE fullWalk(_, _, _, _)
fullWalk(po, prev, e, emptyBins) ==
    IF po > AddrBits
    THEN [e |-> e, panic |-> FALSE]
    ELSE IF Bin(conns, po) = {}
    THEN fullWalk(po + 1, prev, e, emptyBins)
    ELSE LET gap == fullGap(prev, po, e, emptyBins) IN
         IF gap.stop
         THEN [e |-> gap.e, panic |-> gap.panic]
         ELSE fullWalk(po + 1, po + 1, gap.e, emptyBins)

\* Kademlia.full(emptyBins): true when every entry was taken
full(emptyBins) ==
    LET walk == fullWalk(0, 0, Len(emptyBins), emptyBins) IN
    IF walk.panic THEN "panic" ELSE IF walk.e = 0 THEN "true" ELSE "false"

\* Kademlia.Healthy(pp), lines 673-679: what it returns
healthy(pp) ==
    IF full(pp.EmptyBins) = "panic"
    THEN "panic"
    ELSE IF gotNearestNeighbours(pp.NNSet) /\ full(pp.EmptyBins) = "true"
    THEN "true"
    ELSE "false"

\* the PeerPot records Healthy is asked about: nearest neighbours among the
\* peers, empty bins in descending order as NewPeerPot lists them
EmptyBinLists == {<<>>, <<0>>, <<1>>, <<2>>, <<1, 0>>, <<2, 0>>, <<2, 1>>, <<2, 1, 0>>}

PeerPots == [NNSet : SUBSET Peers, EmptyBins : EmptyBinLists]

\* a call of On holds the write lock of the table
writeLocked == "On" \in DOMAIN calls

\* the calls under way without the call of a caller
returned(caller) == [c \in DOMAIN calls \ {caller} |-> calls[c]]

\* On(p) with HealthCheck, lines 299-318: the write lock is taken and the
\* peer inserted
OnSwap ==
    /\ HealthCheck
    /\ ~writeLocked
    /\ \E p \in Peers :
         /\ conns' = onConns(p)
         /\ addrs' = onAddrs(p)
         /\ calls' = [c \in DOMAIN calls \cup {"On"} |->
                         IF c = "On" THEN [peer |-> p] ELSE calls[c]]
         /\ last' = [NoCall EXCEPT !.op = "On.Swap", !.peers = {p}]
    /\ UNCHANGED <<now, HealthCheck, events, handler>>

\* On(p) with HealthCheck, lines 319-323: the signal is sent to the
\* channel of one slot, which blocks while the slot is taken; the call
\* returns and the lock is released
OnSignal ==
    /\ writeLocked
    /\ events < 1
    /\ events' = events + 1
    /\ calls' = returned("On")
    /\ last' = [NoCall EXCEPT !.op = "On", !.peers = {calls["On"].peer}]
    /\ UNCHANGED <<addrs, conns, now, HealthCheck, handler>>

\* Off(p) once it has the write lock
OffUnlocked ==
    /\ ~writeLocked
    /\ Off

\* Healthy(pp) with HealthCheck, lines 668-670: a signal is taken from the
\* channel, which blocks while there is none
HealthyWait ==
    /\ HealthCheck
    /\ "Healthy" \notin DOMAIN calls
    /\ events > 0
    /\ events' = events - 1
    /\ calls' = [c \in DOMAIN calls \cup {"Healthy"} |->
                    IF c = "Healthy" THEN [peer |-> NoPeer] ELSE calls[c]]
    /\ last' = [NoCall EXCEPT !.op = "Healthy.events"]
    /\ UNCHANGED <<addrs, conns, now, HealthCheck, handler>>

\* Healthy(pp), lines 671-679: under the read lock
Healthy ==
    /\ HealthCheck => "Healthy" \in DOMAIN calls
    /\ ~writeLocked
    /\ calls' = returned("Healthy")
    /\ \E pp \in PeerPots :
         last' = [NoCall EXCEPT !.op = "Healthy", !.NNSet = pp.NNSet,
                                !.EmptyBins = pp.EmptyBins,
                                !.healthy = healthy(pp)]
    /\ UNCHANGED <<addrs, conns, now, HealthCheck, events, handler>>

(* ------------------------- concurrent updates -------------------------- *)

\* the goroutines that call Update on the one handler
Callers == {"first", "second"}

\* update, lines 774-863, run by `caller`: the entry is fetched under the
\* read lock, which getResource releases on return, and the period, the
\* version and the chunk are worked out from it with no lock held; the call
\* returns early on an error and is otherwise about to put its chunk
updateBegin(caller) ==
    LET name == SafeName
        data == "hello"
        call == [NoCall EXCEPT !.op = "Update", !.name = name, !.data = data]
    IN
    /\ caller \notin DOMAIN calls
    /\ IF updatePrecondition(name, data) # ""
       THEN /\ last' = [call EXCEPT !.err = updatePrecondition(name, data)]
            /\ UNCHANGED calls
       ELSE \E a \in UpdateOracles :
            LET c == updateChunk(name, data, FALSE, a[1], a[2], a[3]) IN
            IF ~c.publish
            THEN /\ last' = [call EXCEPT !.err = c.err, !.owner = c.owner]
                 /\ UNCHANGED calls
            ELSE /\ calls' = [x \in DOMAIN calls \cup {caller} |->
                                IF x = caller THEN [name |-> name, data |-> data, c |-> c]
                                ELSE calls[x]]
                 /\ last' = [call EXCEPT !.op = "Update.read", !.key = c.key,
                                         !.period = c.period, !.version = c.version,
                                         !.owner = c.owner]
    /\ UNCHANGED <<handler, kademlia, HealthCheck, events>>

UpdateBegin == \E caller \in Callers : updateBegin(caller)

\* update, lines 865-883, run by `caller`: the chunk is put, the store
\* answers, and on "stored" the entry is written with no lock held
updateEnd(caller) ==
    /\ caller \in DOMAIN calls
    /\ LET f == calls[caller]
           c == f.c
       IN
       /\ HasRoom(c.key)
       /\ \E answer \in PutAnswers :
            /\ store' = storePut(c.chunk, answer[2])
            /\ resources' = setResource(EnsNode(f.name),
                   updated(resources[EnsNode(f.name)], c, answer[1], f.data))
            /\ used' = IF answer[1] = "stored" THEN used \cup {c.key} ELSE used
            /\ last' = [NoCall EXCEPT
                          !.op = "Update", !.name = f.name, !.data = f.data,
                          !.err = IF answer[1] = "stored" THEN "" ELSE "ErrIO",
                          !.key = c.key, !.period = c.period,
                          !.version = c.version, !.put = answer[1],
                          !.owner = c.owner,
                          !.reuse = (answer[1] = "stored" /\ c.key \in used)]
    /\ calls' = returned(caller)
    /\ UNCHANGED <<kademlia, HealthCheck, events, signer, ownerValidator,
                   queryMaxPeriods, storeBound, block>>

UpdateEnd == \E caller \in Callers : updateEnd(caller)

\* NewResource for a name the index does not hold yet
NewResourceOnce == SafeName \notin {resources[n].name : n \in DOMAIN resources} /\ NewResource

(* ------------------------ concurrent suggestions ----------------------- *)

\* SuggestPeer holds the read lock of the table from line 233 to its
\* return, and any number of callers hold it together. calls counts, for a
\* peer and the retries its entry was read with, the callers whose callable
\* has passed the tests of lines 441-457 on the entry and has not yet
\* incremented its retries
readLocked == DOMAIN calls # {}

RECURSIVE inCallable(_)
inCallable(keys) ==
    IF keys = {} THEN 0
    ELSE LET k == CHOOSE x \in keys : TRUE IN calls[k] + inCallable(keys \ {k})

\* SuggestPeer up to the increment in callable: the caller returns at once
\* when no entry is callable
SuggestBegin ==
    /\ inCallable(DOMAIN calls) < MaxCallers
    /\ \E s \in suggestPeer :
         IF s.a = NoPeer
         THEN /\ last' = [NoCall EXCEPT !.op = "SuggestPeer", !.a = s.a, !.o = s.o,
                                        !.want = s.want]
              /\ UNCHANGED calls
         ELSE LET k == <<s.a, addrs[s.a].retries>> IN
              /\ calls' = [x \in DOMAIN calls \cup {k} |->
                              IF x = k
                              THEN (IF k \in DOMAIN calls THEN calls[k] ELSE 0) + 1
                              ELSE calls[x]]
              /\ last' = [NoCall EXCEPT !.op = "SuggestPeer.callable", !.a = s.a]
    /\ UNCHANGED <<kademlia, handler, HealthCheck, events>>

\* callable, line 458, and the return of SuggestPeer: e.retries++ is a read
\* and a write that no lock orders among the callers, so the entry gets one
\* more than it has now or one more than this caller read
SuggestEnd ==
    /\ \E k \in DOMAIN calls :
         /\ \E retries \in {addrs[k[1]].retries + 1, k[2] + 1} :
              addrs' = [addrs EXCEPT ![k[1]].retries = retries]
         /\ calls' = [x \in (IF calls[k] = 1 THEN DOMAIN calls \ {k} ELSE DOMAIN calls) |->
                         IF x = k THEN calls[k] - 1 ELSE calls[x]]
         /\ last' = [NoCall EXCEPT !.op = "SuggestPeer", !.a = k[1]]
    /\ UNCHANGED <<conns, now, handler, HealthCheck, events>>

\* Register, On and Off of the peer 8 take the write lock, which they get
\* when no caller holds the read lock
RegisterLocked == ~readLocked /\ register({8})
OnLocked == ~readLocked /\ On /\ last'.peers = {8}
OffLocked == ~readLocked /\ off(8)

(* --------------------------- specification ----------------------------- *)

\* NewResourceHandler(params): with or without signer, with a validator, no
\* store bound
Init ==
    /\ signer \in BOOLEAN
    /\ ownerValidator = TRUE
    /\ queryMaxPeriods = LookupParams(FALSE, 0)
    /\ storeBound = FALSE
    /\ store = [k \in {} |-> 0]
    /\ resources = [k \in {} |-> 0]
    /\ block = 0
    /\ used = {}
    /\ addrs = [k \in {} |-> 0]
    /\ conns = [k \in {} |-> 0]
    /\ now = 0
    /\ HealthCheck = FALSE
    /\ events = 0
    /\ calls = [c \in {} |-> 0]
    /\ last = NoCall

Next ==
    \/ SetStore
    \/ AdvanceBlock
    \/ NewResource
    \/ LoadResource
    \/ Update
    \/ UpdateMultihash
    \/ LookupVersion
    \/ LookupHistorical
    \/ LookupLatest
    \/ LookupPrevious

Spec == Init /\ [][Next]_vars

\* the handler under updates of one byte more than fits
NextOverflow ==
    \/ SetStore
    \/ AdvanceBlock
    \/ NewResource
    \/ UpdateOverflow
    \/ LookupLatest

SpecOverflow == Init /\ [][NextOverflow]_vars

\* the handler on a store that other nodes publish metadata chunks to
NextShared ==
    \/ SetStore
    \/ AdvanceBlock
    \/ Deliver
    \/ NewResource
    \/ LoadResource
    \/ Update
    \/ LookupLatest

SpecShared == Init /\ [][NextShared]_vars

\* the chunk codec and the chunk validator of a handler
NextCodec ==
    \/ ValidateCall
    \/ ParseEncoded

SpecCodec == Init /\ [][NextCodec]_vars

\* parseUpdate on chunk data of any header
NextParse ==
    \/ ParseRaw

SpecParse == Init /\ [][NextParse]_vars

\* the period arithmetic
NextPeriod ==
    \/ GetNextPeriod

SpecPeriod == Init /\ [][NextPeriod]_vars

\* the Kademlia table
NextKademlia ==
    \/ Register
    \/ On
    \/ Off
    \/ SuggestPeer
    \/ Tick

\* NewKademlia(addr, params): no known peers, no live peers
InitKademlia ==
    /\ Init
    /\ signer

SpecKademlia == InitKademlia /\ [][NextKademlia]_vars

\* the table after On(p) of MaxBinSize peers in every bin up to
\* SaturatedDepth
InitSaturated ==
    /\ signer = TRUE
    /\ ownerValidator = TRUE
    /\ queryMaxPeriods = LookupParams(FALSE, 0)
    /\ storeBound = FALSE
    /\ store = [k \in {} |-> 0]
    /\ resources = [k \in {} |-> 0]
    /\ block = 0
    /\ used = {}
    /\ now = 0
    /\ conns = [x \in SaturatedPeers |-> newEntry(TRUE)]
    /\ addrs = conns
    /\ HealthCheck = FALSE
    /\ events = 0
    /\ calls = [c \in {} |-> 0]
    /\ last = NoCall

\* a peer of the full table drops, and the table is asked for a peer
NextSaturated ==
    \/ RegisterSaturated
    \/ OffSaturated
    \/ SuggestPeer
    \/ Tick

SpecSaturated == InitSaturated /\ [][NextSaturated]_vars

\* NewKademlia(addr, params) with params.HealthCheck
InitHealth ==
    /\ signer = TRUE
    /\ ownerValidator = TRUE
    /\ queryMaxPeriods = LookupParams(FALSE, 0)
    /\ storeBound = FALSE
    /\ store = [k \in {} |-> 0]
    /\ resources = [k \in {} |-> 0]
    /\ block = 0
    /\ used = {}
    /\ addrs = [k \in {} |-> 0]
    /\ conns = [k \in {} |-> 0]
    /\ now = 0
    /\ HealthCheck = TRUE
    /\ events = 0
    /\ calls = [c \in {} |-> 0]
    /\ last = NoCall

\* the table with its health check
NextHealth ==
    \/ OnSwap
    \/ OnSignal
    \/ OffUnlocked
    \/ HealthyWait
    \/ Healthy

SpecHealth == InitHealth /\ [][NextHealth]_vars

\* a call of On that can go on does go on; nothing makes a caller ask
\* for the health of the table
FairSpecHealth == SpecHealth /\ WF_vars(OnSignal)

\* one handler whose resource is created once and then updated by two
\* goroutines; no lookup moves the entry
NextConcurrent ==
    \/ SetStore
    \/ AdvanceBlock
    \/ NewResourceOnce
    \/ UpdateBegin
    \/ UpdateEnd

SpecConcurrent == Init /\ [][NextConcurrent]_vars

\* the table of one peer with many callers of SuggestPeer
NextSuggest ==
    \/ RegisterLocked
    \/ OnLocked
    \/ OffLocked
    \/ SuggestBegin
    \/ SuggestEnd
    \/ Tick

SpecSuggest == InitKademlia /\ [][NextSuggest]_vars

\* the full table with peers of bin 0 coming and going, and the pruning
NextPrune ==
    \/ OnBinZero
    \/ OffBinZero
    \/ Prune

SpecPrune == InitSaturated /\ [][NextPrune]_vars

\* peers going on and off, and the notifications On starts
NextNotify ==
    \/ OnNotify
    \/ Off
    \/ notify

SpecNotify == InitKademlia /\ [][NextNotify]_vars

(* ------------------------------ claims --------------------------------- *)

\* the call `call` is an Update or an UpdateMultihash
IsUpdate(call) == call.op \in {"Update", "UpdateMultihash"}

\* the call `call` went into update(ctx, name, data, multihash)
EntersUpdate(call) ==
    /\ IsUpdate(call)
    /\ call.op = "UpdateMultihash" => isMultihash(call.data) # 0

\* the call `call` is one of the four lookup methods, and went into lookup
IsLookup(call) ==
    /\ call.op \in {"LookupVersion", "LookupHistorical", "LookupLatest", "LookupPrevious"}
    /\ ~call.maxLookup.nil

\* the keys of the update chunks of `name` the store holds
UpdateKeys(name) ==
    {k \in DOMAIN store : store[k].kind = "update" /\ k[4] = EnsNode(name)}

\* C1: a successful update never publishes under a chunk key that an earlier
\* successful update of the handler already used.
C1_NoKeyReuse == (IsUpdate(last) /\ last.err = "") => ~last.reuse

\* C2: a successful update publishes at period p = getNextPeriod(startBlock,
\* block, frequency), with version lastVersion + 1 if the entry's lastPeriod
\* is p and 1 otherwise, under the key H(p || version || nameHash), and
\* leaves p, that version and the payload in the entry.
C2_UpdatePeriodVersionKey ==
    [][ (IsUpdate(last') /\ last'.err = "") =>
          LET n == EnsNode(last'.name)
              e == resources[n]
              p == getNextPeriod(e.startBlock, block, e.frequency).period
              v == IF e.lastPeriod = p THEN e.version + 1 ELSE 1
              key == resourceHash(p, v, n)
          IN  /\ last'.period = p
              /\ last'.version = v
              /\ last'.key = key
              /\ key \in DOMAIN store'
              /\ store'[key].period = p
              /\ store'[key].version = v
              /\ store'[key].data = last'.data
              /\ resources'[n].lastPeriod = p
              /\ resources'[n].version = v
              /\ resources'[n].data = last'.data ]_vars

\* C2, its case: a second update of a period, and a first update of a later one
C2_Witness ==
    /\ IsUpdate(last)
    /\ last.err = ""
    /\ last.period = 2
    /\ last.version = 2

\* C3: an update succeeds only when the store signalled "stored", and the
\* LookupLatest that follows a successful Update(name, d) returns d with the
\* update's period and version.
C3_UpdateThenLookupLatest ==
    [][ /\ (IsUpdate(last') /\ last'.err = "") =>
               (last'.put = "stored" /\ last'.key \in DOMAIN store')
        /\ ( /\ IsUpdate(last)
             /\ last.err = ""
             /\ last'.op = "LookupLatest"
             /\ last'.name = last.name
             /\ IsLookup(last')
             /\ ~last'.maxLookup.Limit ) =>
               /\ last'.err = ""
               /\ resources'[EnsNode(last.name)].lastPeriod = last.period
               /\ resources'[EnsNode(last.name)].version = last.version
               /\ resources'[EnsNode(last.name)].data = last.data ]_vars

\* C4: with exactly two updates, versions 1 and 2 of one period, and the
\* entry at version 1, LookupPrevious returns ErrNothingToReturn.
C4_PreviousOfOldest ==
    [][ ( /\ last'.op = "LookupPrevious"
          /\ EnsNode(last'.name) \in DOMAIN resources
          /\ LET e == resources[EnsNode(last'.name)] IN
             /\ isSynced(e)
             /\ e.lastPeriod >= 1
             /\ e.version = 1
             /\ UpdateKeys(last'.name) =
                   {resourceHash(e.lastPeriod, 1, e.nameHash),
                    resourceHash(e.lastPeriod, 2, e.nameHash)} ) =>
          last'.err = "ErrNothingToReturn" ]_vars

\* the periods P, P-1, ..., P-m
Descending(P, m) == [i \in 1 .. m + 1 |-> P - i + 1]

\* C5: a lookup with the limit Max = m that starts at period P probes only
\* periods among P, P-1, ..., P-m, in that order, and if none of them holds
\* an update and P-m-1 >= 1 it probes all of them and fails with
\* ErrPeriodDepth, whatever older periods hold.
C5_HopLimit ==
    (IsLookup(last) /\ last.maxLookup.Limit /\ last.period >= 1) =>
        LET m == last.maxLookup.Max
            P == last.period
            n == EnsNode(last.name)
        IN  /\ Len(last.probes) <= m + 1
            /\ \A i \in DOMAIN last.probes : last.probes[i] = P - i + 1
            /\ ( /\ P - m - 1 >= 1
                 /\ \A i \in 0 .. m :
                       resourceHash(P - i, last.version, n) \notin DOMAIN store ) =>
                   (last.err = "ErrPeriodDepth" /\ last.probes = Descending(P, m))

\* C5, its case: Max = 1, periods P and P-1 empty, an update in an older one
C5_Witness ==
    /\ IsLookup(last)
    /\ last.maxLookup.Limit
    /\ last.maxLookup.Max = 1
    /\ last.err = "ErrPeriodDepth"
    /\ Len(last.probes) = 2
    /\ \E k \in UpdateKeys(last.name) : k[2] < last.period - 1

\* C6 as stated: with a validator that rejects the name, update returns
\* ErrUnauthorized and publishes nothing.
C6_RejectedOwner ==
    (IsUpdate(last) /\ last.owner = "no") =>
        (last.err = "ErrUnauthorized" /\ last.put = "none")

\* C6: with a signer, and a validator that rejects the signer's address for
\* the name, an update that passed the earlier checks returns
\* ErrUnauthorized, publishes nothing and leaves the entry as it was.
C6_RejectedSigner ==
    [][ (IsUpdate(last') /\ last'.owner = "no" /\ signer) =>
          /\ last'.err = "ErrUnauthorized"
          /\ last'.put = "none"
          /\ store' = store
          /\ resources' = resources ]_vars

\* C6, its case: a signed update the validator rejected
C6_Witness ==
    /\ IsUpdate(last)
    /\ signer
    /\ last.owner = "no"
    /\ last.err = "ErrUnauthorized"
    /\ EnsNode(last.name) \in DOMAIN resources

\* the signature bytes of an update chunk of this handler
signatureLen == IF signer THEN signatureLength ELSE 0

\* C7: an update succeeds only with a payload of at most
\* chunkSize - (signatureLen + |name| + 12) bytes, and its chunk is of at
\* most chunkSize bytes.
C7_DataLimit ==
    (IsUpdate(last) /\ last.err = "") =>
        /\ DataLen(last.data) <= chunkSize - (signatureLen + NameLen(last.name) + 12)
        /\ last.key \in DOMAIN store
        /\ store[last.key].length <= chunkSize

\* C8: when the store signals an error, or nothing within storeTimeout,
\* update returns ErrIO and leaves the entry as it was.
C8_StoreFailure ==
    [][ (IsUpdate(last') /\ last'.put \in {"error", "timeout"}) =>
          /\ last'.err = "ErrIO"
          /\ resources' = resources ]_vars

\* C8, its case: the store timed out on the second update of an entry
C8_Witness ==
    /\ IsUpdate(last)
    /\ last.put = "timeout"
    /\ last.err = "ErrIO"
    /\ last.version = 2
    /\ resources[EnsNode(last.name)].version = 1

\* C9: update fails on the first of its preconditions that does not hold,
\* with ErrInvalidValue for an empty payload, ErrInit without store,
\* ErrNotFound without entry and ErrNotSynced for an entry never refreshed,
\* publishing nothing and leaving the index as it was.
C9_Preconditions ==
    [][ EntersUpdate(last') =>
          LET n == EnsNode(last'.name)
              expected ==
                 IF DataLen(last'.data) = 0 THEN "ErrInvalidValue"
                 ELSE IF ~storeBound THEN "ErrInit"
                 ELSE IF n \notin DOMAIN resources THEN "ErrNotFound"
                 ELSE IF ~resources[n].updated THEN "ErrNotSynced"
                 ELSE ""
          IN  IF expected # ""
              THEN /\ last'.err = expected
                   /\ last'.put = "none"
                   /\ store' = store
                   /\ resources' = resources
              ELSE last'.err \notin {"ErrInvalidValue", "ErrInit", "ErrNotFound",
                                     "ErrNotSynced"} ]_vars

\* C9, its case: an update of an entry LoadResource installed
C9_Witness ==
    /\ IsUpdate(last)
    /\ last.err = "ErrNotSynced"
    /\ EnsNode(last.name) \in DOMAIN resources
    /\ ~resources[EnsNode(last.name)].updated

\* C10: NewResource returns ErrInvalidValue for frequency 0 and for a name
\* that is not its own IDNA-ASCII form, and ErrUnauthorized when a signer is
\* there and the validator rejects its address, in each case publishing
\* nothing and leaving the index as it was; on success the entry it
\* installs is synced, with lastPeriod 0 and version 0.
C10_NewResource ==
    [][ last'.op = "NewResource" =>
          LET n == EnsNode(last'.name)
              ascii == idnaToASCII(last'.name)
              invalid == \/ last'.frequency = 0
                         \/ ascii.err
                         \/ ascii.val # last'.name
          IN  /\ invalid => last'.err = "ErrInvalidValue"
              /\ (~invalid /\ signer /\ last'.owner = "no") =>
                     last'.err = "ErrUnauthorized"
              /\ last'.err \in {"ErrInvalidValue", "ErrUnauthorized"} =>
                     (store' = store /\ resources' = resources /\ last'.put = "none")
              /\ last'.err = "" =>
                     /\ n \in DOMAIN resources'
                     /\ isSynced(resources'[n])
                     /\ resources'[n].lastPeriod = 0
                     /\ resources'[n].version = 0
                     /\ last'.key \in DOMAIN store' ]_vars

\* C10, its case: NewResource replaced an entry that had updates
C10_Witness ==
    /\ last.op = "NewResource"
    /\ last.err = ""
    /\ UpdateKeys(last.name) # {}
    /\ resources[EnsNode(last.name)].lastPeriod = 0

\* C11: LoadResource of the metadata chunk and a successful LookupLatest
\* rebuild the entry the writing handler had after its last successful
\* update: name, startBlock, frequency, lastPeriod, version and payload.
C11_Rebuild ==
    [][ ( /\ last.op = "LoadResource"
          /\ last.rebuild
          /\ last'.op = "LookupLatest"
          /\ last'.name = last.name
          /\ last'.err = "" ) =>
          LET e == resources'[EnsNode(last.name)] IN
          /\ last.key = metaHash(e.startBlock, e.frequency, e.name)
          /\ e.name = last.name
          /\ e.lastPeriod = last.period
          /\ e.version = last.version
          /\ e.data = last.data ]_vars

\* C13: Validate returns true on the chunk of every metadata record.
C13_ValidateMeta ==
    (last.op = "Validate" /\ last.chunk.kind = "meta") => last.valid = "true"

\* C14: Validate returns true or false on every key and every data; it
\* never aborts.
C14_ValidateTotal ==
    last.op = "Validate" => last.valid \in {"true", "false"}

\* the call is a Validate of data that parseUpdate takes as an update
ValidatesUpdate(call) ==
    /\ call.op = "Validate"
    /\ parseUpdate(call.chunk).err = ""

\* the key is the one of the period, version and name in the data
KeyMatches(call) ==
    call.key = resourceHash(call.chunk.period, call.chunk.version,
                            EnsNode(call.chunk.name))

C16_RoundTrip ==
    last.op = "parseUpdate" =>
        /\ last.err = ""
        /\ last.period = last.chunk.period
        /\ last.version = last.chunk.version
        /\ last.name = last.chunk.name
        /\ last.data = last.chunk.data
        /\ last.multihash = last.chunk.multihash
        /\ last.signature = last.chunk.signature

\* C12: every entry of the index has a frequency above 0 and a name that is
\* its own IDNA-ASCII form.
C12_EntriesWellFormed ==
    \A k \in DOMAIN resources :
        /\ resources[k].frequency > 0
        /\ resources[k].name # ""
        /\ ~idnaToASCII(resources[k].name).err
        /\ idnaToASCII(resources[k].name).val = resources[k].name

\* C17: after any sequence of Register, On and Off every live peer is a
\* known peer too: the addresses of conns are addresses of addrs, and conns
\* is not larger than addrs.
C17_ConnsKnown ==
    /\ DOMAIN conns \subseteq DOMAIN addrs
    /\ Size(conns) <= Size(addrs)

C17_Witness ==
    /\ last.op = "Off"
    /\ last.err = ""
    /\ Size(conns) >= 1
    /\ Size(addrs) > Size(conns)

\* the live peers at proximity order po of base or nearer
ConnsFrom(po) == {x \in DOMAIN conns : pof(base, x) >= po}

\* C18 as stated: Depth() is 0 if and only if there are fewer live
\* connections than MinProxBinSize.
C18_DepthZeroIff ==
    depth = 0 <=> Size(conns) < MinProxBinSize

\* C18 as amended: Depth() is 0 whenever there are fewer live connections
\* than MinProxBinSize, and it is 0 if and only if fewer than MinProxBinSize
\* live connections have a proximity order of 1 or more.
C18_DepthZero ==
    /\ Size(conns) < MinProxBinSize => depth = 0
    /\ depth = 0 <=> Cardinality(ConnsFrom(1)) < MinProxBinSize

C18_Witness ==
    /\ last.op = "On"
    /\ Size(conns) >= MinProxBinSize
    /\ depth = 0

\* the proximity orders d with at least MinProxBinSize live connections at
\* proximity order d or more
DepthsWithNeighbours ==
    {d \in 0 .. AddrBits : Cardinality(ConnsFrom(d)) >= MinProxBinSize}

\* C19 as stated: Depth() is the smallest proximity order d such that at
\* least MinProxBinSize live connections have a proximity order of d or
\* more, and 0 with fewer than MinProxBinSize live connections.
C19_DepthSmallest ==
    depth = IF Size(conns) < MinProxBinSize
            THEN 0
            ELSE CHOOSE d \in DepthsWithNeighbours :
                     \A e \in DepthsWithNeighbours : d <= e

\* C19 as amended: Depth() is the largest proximity order d such that at
\* least MinProxBinSize live connections have a proximity order of d or
\* more, and 0 with fewer than MinProxBinSize live connections.
C19_DepthLargest ==
    depth = IF Size(conns) < MinProxBinSize
            THEN 0
            ELSE CHOOSE d \in DepthsWithNeighbours :
                     \A e \in DepthsWithNeighbours : e <= d

C19_Witness ==
    /\ last.op = "On"
    /\ Size(conns) > MinProxBinSize
    /\ depth >= 1
    /\ ConnsFrom(depth) # DOMAIN conns

\* C20: after any sequence of Register, On and Off, SuggestPeer never
\* returns the address of a peer that has a live connection in conns.
C20_SuggestsNoLivePeer ==
    (last.op = "SuggestPeer" /\ last.a # NoPeer) => last.a \notin DOMAIN conns

\* C22: a stream with the table's own address makes Register return an
\* error and leave addrs exactly as it was, the records received before
\* the own address included; Register never changes conns.
C22_RegisterSelf ==
    [][last'.op = "Register" =>
         /\ conns' = conns
         /\ base \in last'.peers => (last'.err = "self" /\ addrs' = addrs)]_vars

C22_Witness ==
    /\ last.op = "Register"
    /\ last.err = "self"
    /\ last.peers = {8, base}
    /\ 8 \notin DOMAIN addrs
    /\ Size(addrs) >= 1

\* C23: Off(p) of a connected peer leaves p out of conns and in addrs as a
\* plain record made anew from p.Off(); Off(p) of a peer addrs does not
\* know aborts and leaves addrs and conns as they were.
C23_Off ==
    [][last'.op = "Off" =>
         \A p \in last'.peers :
            /\ p \in DOMAIN conns =>
                  /\ last'.err = ""
                  /\ p \notin DOMAIN conns'
                  /\ p \in DOMAIN addrs'
                  /\ addrs'[p] = [conn |-> FALSE, seenAt |-> now, retries |-> 0]
            /\ p \notin DOMAIN addrs =>
                  /\ last'.err = "panic"
                  /\ addrs' = addrs
                  /\ conns' = conns]_vars

C23_Witness ==
    /\ last.op = "Off"
    /\ last.live
    /\ last.err = ""
    /\ last.peers \cap DOMAIN conns = {}
    /\ \A p \in last.peers : p \in DOMAIN addrs /\ ~addrs[p].conn
    /\ Size(conns) >= 1

\* the live peers are those of the full table but one peer
OneRemoved(p) ==
    /\ p \in SaturatedPeers
    /\ DOMAIN conns = SaturatedPeers \ {p}

\* C21 as stated: from the table with MaxBinSize live peers in every bin up
\* to depth, after Off of one peer of bin b, SuggestPeer returns a callable
\* address of bin b with want = false, or (nil, b, true).
C21_SuggestsDroppedBin ==
    last.op = "SuggestPeer" =>
        \A p \in SaturatedPeers :
            OneRemoved(p) =>
                \/ /\ last.a # NoPeer
                   /\ pof(base, last.a) = pof(base, p)
                   /\ ~last.want
                \/ /\ last.a = NoPeer
                   /\ last.o = pof(base, p)
                   /\ last.want

\* C21 as amended: the full table suggests (nil, 0, false); after Off of
\* one peer p of bin b, SuggestPeer returns the address of p with
\* want = false when b is the depth or more and p is callable, and
\* (nil, 0, false) otherwise: the bin keeps MinBinSize peers or more.
C21_SuggestsDroppedNeighbour ==
    [][last'.op = "SuggestPeer" =>
         /\ DOMAIN conns = SaturatedPeers =>
               last'.a = NoPeer /\ last'.o = 0 /\ ~last'.want
         /\ \A p \in SaturatedPeers :
               OneRemoved(p) =>
                   IF pof(base, p) >= depth /\ callable(addrs[p])
                   THEN last'.a = p /\ last'.o = 0 /\ ~last'.want
                   ELSE last'.a = NoPeer /\ last'.o = 0 /\ ~last'.want]_vars

C21_Witness ==
    /\ last.op = "SuggestPeer"
    /\ \E p \in SaturatedPeers :
          /\ OneRemoved(p)
          /\ pof(base, p) < depth
          /\ callable(addrs[p])
    /\ last.a = NoPeer
    /\ last.o = 0
    /\ ~last.want

\* the bins a list names
Range(list) == {list[i] : i \in DOMAIN list}

\* C24: Healthy(expected) returns true if and only if every address of
\* expected.NNSet is a live connection at the depth or nearer and every bin
\* of expected.EmptyBins is empty in conns.
C24_Healthy ==
    last.op = "Healthy" =>
        (last.healthy = "true" <=>
            /\ last.NNSet \subseteq ConnsFrom(depth)
            /\ \A b \in Range(last.EmptyBins) : Bin(conns, b) = {})

\* C25: every call of On returns and releases the write lock of the table
\* in the end, also with HealthCheck and with no call of Healthy that takes
\* the signal of the call of On before.
C25_OnReturns == writeLocked ~> ~writeLocked

\* the periods among 1 .. P that hold a version 1 of the resource
PeriodsWithUpdate(nameHash, P) ==
    {p \in 1 .. P : resourceHash(p, 1, nameHash) \in DOMAIN store}

\* the highest v such that the versions 1 .. v of period p are all stored
ConsecutiveVersions(nameHash, p) ==
    CHOOSE v \in 0 .. MaxChunks :
        /\ \A u \in 1 .. v : resourceHash(p, u, nameHash) \in DOMAIN store
        /\ resourceHash(p, v + 1, nameHash) \notin DOMAIN store

\* C26: a lookup without a specific version and without a hop limit, started
\* at period P >= 1, probes at most P periods; it fails with ErrNotFound when
\* no period of 1 .. P holds a version 1, and otherwise leaves the entry at
\* the greatest such period p and at the highest version v for which the
\* versions 1 .. v of p are all stored.
C26_LookupScan ==
    ( /\ last.op \in {"LookupLatest", "LookupHistorical"}
      /\ last.period >= 1
      /\ ~last.maxLookup.Limit ) =>
        LET n == EnsNode(last.name)
            found == PeriodsWithUpdate(n, last.period)
        IN  /\ Len(last.probes) <= last.period
            /\ IF found = {}
               THEN last.err = "ErrNotFound"
               ELSE LET p == CHOOSE q \in found : \A r \in found : r <= q IN
                    /\ last.err = ""
                    /\ resources[n].lastPeriod = p
                    /\ resources[n].version = ConsecutiveVersions(n, p)

\* C26, its case: the scan went back at least one period and then up to a
\* second version
C26_Witness ==
    /\ last.op \in {"LookupLatest", "LookupHistorical"}
    /\ ~last.maxLookup.Limit
    /\ last.err = ""
    /\ Len(last.probes) >= 2
    /\ resources[EnsNode(last.name)].lastPeriod < last.period
    /\ resources[EnsNode(last.name)].version >= 2

\* C27: two Update calls under way at once on the one handler for the one
\* resource never both succeed under the same (period, version): no
\* successful update publishes under a key a successful update already used.
C27_ExclusiveUpdates ==
    ~(last.op = "Update" /\ last.err = "" /\ last.reuse)

\* the call is a parseUpdate of chunk data with the fields as they arrived
ParsesRaw(call) == call.op = "parseUpdate" /\ call.key = NoKey

\* C28: parseUpdate returns ErrNothingToReturn or ErrCorruptData, and neither
\* a result nor a crash, on every chunk whose name length headerlength - 8
\* is 0 or less.
C28_NameLength ==
    (ParsesRaw(last) /\ last.chunk.headerlength - 8 <= 0) =>
        last.err \in {"ErrNothingToReturn", "ErrCorruptData"}

\* C29: parseUpdate rejects every chunk whose headerlength + datalength + 4,
\* summed without wrap-around, is above the length of the chunk or below 14.
C29_LengthCheck ==
    LET sum == last.chunk.headerlength + last.chunk.datalength + 4 IN
    (ParsesRaw(last) /\ (sum > last.chunk.length \/ sum < 14)) =>
        last.err \in {"ErrNothingToReturn", "ErrCorruptData"}

\* C30: for a frequency above 0 and a block height start + k * frequency,
\* getNextPeriod returns k + 1, and never the period 0.
C30_NextPeriod ==
    ( /\ last.op = "getNextPeriod"
      /\ last.frequency > 0
      /\ last.current >= last.start
      /\ (last.current - last.start) % last.frequency = 0 ) =>
        /\ last.err = ""
        /\ last.period = ((last.current - last.start) \div last.frequency) + 1
        /\ last.period # 0

\* two calls of getNextPeriod one after the other with the same start block
\* and the same frequency above 0, both on a block height not below the start
SamePeriodScale ==
    /\ last.op = "getNextPeriod"
    /\ last'.op = "getNextPeriod"
    /\ last'.start = last.start
    /\ last'.frequency = last.frequency
    /\ last.frequency > 0
    /\ last.current >= last.start
    /\ last'.current >= last.start

\* C31: for a fixed start block and a frequency above 0, of two valid block
\* heights the one has the greater period exactly when it is the greater
\* height.
C31_PeriodOrder ==
    [][SamePeriodScale =>
          (last'.period > last.period <=> last'.current > last.current)]_vars

\* C32: a LookupPrevious that returns an error leaves lastPeriod and version
\* of the index entry as they were before the call.
C32_PreviousKeepsEntry ==
    [][ ( /\ last'.op = "LookupPrevious"
          /\ last'.err # ""
          /\ EnsNode(last'.name) \in DOMAIN resources ) =>
          LET n == EnsNode(last'.name) IN
          /\ resources'[n].lastPeriod = resources[n].lastPeriod
          /\ resources'[n].version = resources[n].version ]_vars

\* C33: Off(p) for a live peer p never increases the depth.
C33_OffDepth ==
    [][(last'.op = "Off" /\ last'.err = "") => depth' <= depth]_vars

\* C33, its case: with 8, 9 and 16 connected the depth is 1; Off(8) has left
\* one peer at proximity order 1 and the depth is 0
C33_Witness ==
    /\ last.op = "Off"
    /\ last.err = ""
    /\ last.peers = {8}
    /\ DOMAIN conns = {9, 16}
    /\ depth = 0

\* the bins up to depth with fewer than MinBinSize live connections
ShortBinsToDepth ==
    {po \in 0 .. depth : Cardinality(Bin(conns, po)) < MinBinSize}

\* C34: when no known address is callable, SuggestPeer returns (nil, PO of
\* the first bin up to depth with fewer than MinBinSize live connections,
\* true) if there is such a bin, a table without live connections included,
\* and (nil, 0, false) only if there is none.
C34_SuggestShortBin ==
    [][ ( /\ last'.op = "SuggestPeer"
          /\ \A x \in DOMAIN addrs : ~callable(addrs[x]) ) =>
          /\ last'.a = NoPeer
          /\ IF ShortBinsToDepth # {}
             THEN /\ last'.want
                  /\ last'.o = CHOOSE po \in ShortBinsToDepth :
                                   \A q \in ShortBinsToDepth : po <= q
             ELSE ~last'.want /\ last'.o = 0 ]_vars

\* the number of times the body of the loop
\*   for delta := elapsed / RetryInterval; delta > 0; delta /= RetryExponent
\* runs, elapsed given in units of RetryInterval
Iterations(elapsed) ==
    CHOOSE n \in 0 .. elapsed + 1 :
        /\ elapsed \div (RetryExponent ^ n) = 0
        /\ \A m \in 0 .. n - 1 : elapsed \div (RetryExponent ^ m) > 0

\* the entry has no live connection, at most MaxRetries retries, and no more
\* retries than the time since it was seen allows
MayBeCalled(e) ==
    /\ ~e.conn
    /\ e.retries <= MaxRetries
    /\ Iterations(now - e.seenAt) >= e.retries

\* C35: callable returns the address of an entry without live connection and
\* with at most MaxRetries retries, and adds exactly one to its retries, if
\* the iterations of the loop over the time lapsed are at least its retries;
\* otherwise it returns nil and leaves retries as it was. Stated on
\* SuggestPeer, the caller of callable: the peer it suggests is such an
\* entry and has one retry more, every other entry is as before, and it
\* suggests a peer whenever such an entry is at depth or nearer.
C35_Callable ==
    [][ last'.op = "SuggestPeer" =>
          /\ last'.a # NoPeer =>
                /\ MayBeCalled(addrs[last'.a])
                /\ addrs'[last'.a].retries = addrs[last'.a].retries + 1
          /\ \A x \in DOMAIN addrs \ {last'.a} : addrs'[x] = addrs[x]
          /\ DOMAIN addrs' = DOMAIN addrs
          /\ (\E x \in DOMAIN addrs : pof(base, x) >= depth /\ MayBeCalled(addrs[x]))
                => last'.a # NoPeer ]_vars

\* C35, its case: a peer tried once is suggested again after a retry
\* interval, and its retries are 2
C35_Witness ==
    /\ last.op = "SuggestPeer"
    /\ last.a # NoPeer
    /\ addrs[last.a].retries = 2
    /\ now - addrs[last.a].seenAt = 1

\* SuggestPeer returned the address of a peer, and the next step is a
\* SuggestPeer again: no time has passed between the two
SuggestedAgain ==
    /\ last.op = "SuggestPeer"
    /\ last.a # NoPeer
    /\ last'.op = "SuggestPeer"

\* C36 as stated: once callable has returned the address of an entry, every
\* further call on that entry returns nil until time advances.
C36_OnceUntilTick ==
    [][SuggestedAgain => last'.a # last.a]_vars

\* C36 as amended: once callable has returned the address of an entry and
\* the entry's retries exceed the retries the time lapsed allows, every
\* further call on that entry returns nil until time advances; no entry has
\* more retries than the time lapsed allows plus one.
C36_OnceAllowanceUsed ==
    [][ /\ ( /\ SuggestedAgain
             /\ addrs[last.a].retries > Iterations(now - addrs[last.a].seenAt) )
           => last'.a # last.a
        /\ \A x \in DOMAIN addrs' :
              addrs'[x].retries <= Iterations(now' - addrs'[x].seenAt) + 1 ]_vars

\* C36, its case: a peer seen a retry interval ago has been suggested twice
\* and SuggestPeer has then returned nil
C36_Witness ==
    /\ last.op = "SuggestPeer"
    /\ last.a = NoPeer
    /\ \E x \in DOMAIN addrs :
          /\ ~addrs[x].conn
          /\ now - addrs[x].seenAt = 1
          /\ addrs[x].retries = 2

\* C37: two SuggestPeer calls never run callable on the same entry at the
\* same time, so no retry the time lapsed allows is handed out twice: an
\* entry never has more retries than the time lapsed allows plus one.
C37_RetryOnce ==
    /\ \A k \in DOMAIN calls : calls[k] <= 1
    /\ \A x \in DOMAIN addrs :
          addrs[x].retries <= Iterations(now - addrs[x].seenAt) + 1

\* C38: every entry of the table has at most MaxRetries + 1 retries.
C38_RetriesBounded ==
    \A x \in DOMAIN addrs : addrs[x].retries <= MaxRetries + 1

\* C39: on a tick of Prune, of every bin of conns with more than MaxBinSize
\* peers exactly size - MinBinSize distinct peers get Drop, no peer of a bin
\* with at most MaxBinSize peers gets Drop, and conns and addrs are as they
\* were.
C39_Prune ==
    [][ last'.op = "Prune" =>
          /\ conns' = conns
          /\ addrs' = addrs
          /\ last'.peers \subseteq DOMAIN conns
          /\ \A po \in 0 .. AddrBits :
                LET bin == {x \in DOMAIN conns : pof(base, x) = po} IN
                IF Cardinality(bin) > MaxBinSize
                THEN Cardinality(last'.peers \cap bin) = Cardinality(bin) - MinBinSize
                ELSE last'.peers \cap bin = {} ]_vars

\* C39, its case: bin 0 holds MaxBinSize + 1 live peers and Drop went to
\* MaxBinSize + 1 - MinBinSize of them
C39_Witness ==
    /\ last.op = "Prune"
    /\ Cardinality({x \in DOMAIN conns : pof(base, x) = 0}) = MaxBinSize + 1
    /\ Cardinality(last.peers) = MaxBinSize + 1 - MinBinSize

\* C40: whenever the notify(p) that On(p) started computes the depth and
\* notifies the peers, p is a live connection in conns.
C40_NotifyLive ==
    last.op = "notify" => last.live

====
